---- MODULE Spec2Model ----
(***************************************************************************)
(* Segment-recording controller of src/components/AudioRecorder.js.        *)
(*                                                                         *)
(* The component is a set of async functions running on one JavaScript     *)
(* thread.  Every function runs without interruption up to its next        *)
(* `await` of a device, file or timer operation; one action of this module *)
(* is one such uninterrupted stretch (an invocation up to its first await, *)
(* or the continuation after one awaited operation has settled).  A call   *)
(* of one async function by another is inlined in the caller's task, and   *)
(* the un-awaited call of stopRecording in startNewSegment's catch block   *)
(* starts a task of its own.                                               *)
(*                                                                         *)
(* React state (useState) is read through the closure of the render in     *)
(* which a function was created: a button handler sees the state of the    *)
(* current render, a timer callback sees the state of the render in which  *)
(* startRecording was invoked.  Each task therefore carries the values of  *)
(* `recording` and `recordingSegments` it closed over (cRec, cSegs).       *)
(* Refs (useRef) are read and written directly.                            *)
(*                                                                         *)
(* Time is counted in seconds.  A setInterval timer fires when its due     *)
(* time has been reached; time does not advance past a due timer.  Awaited *)
(* device and file operations settle after an arbitrary delay.             *)
(***************************************************************************)
EXTENDS Integers, Sequences, FiniteSets, TLC

\* ---- bounds of the model ------------------------------------------------
MaxPresses == 2      \* presses of the record button
MaxFaults == 1       \* awaited operations that fail (throw, denied, null URI)
MaxTime == 5         \* seconds of wall-clock time
MaxSoloTime == 10    \* seconds of wall-clock time of an undisturbed session
MaxSessionPresses == 4  \* presses of the record button in back-to-back sessions
ClockSteps == 2      \* distinct readings of the clock within one second
MaxToggles == 3      \* presses on segments of the list (playSegment calls)

\* ---- program constants --------------------------------------------------
SegmentSeconds == 5  \* period of the rotation timer, in seconds
TickSeconds == 1     \* period of the display timer, in seconds
NoHandle == 0        \* null in recording / recordingRef / timer refs

VARIABLES
  recording,          \* useState: the open Recording object, or null
  isRecording,        \* useState
  recordingSegments,  \* useState: list of saved segments
  recordingTime,      \* useState: elapsed seconds
  segmentProgress,    \* useState: seconds into the current segment
  intervalRef,        \* useRef: id of the 5-second timer, or null
  timerRef,           \* useRef: id of the 1-second timer, or null
  segmentCountRef,    \* useRef: sequence counter
  isRecordingRef,     \* useRef
  recordingRef,       \* useRef: the open Recording object, or null
  openHandles,        \* device: Recording objects created and not stopped
  nextHandle,         \* device: identity of the next Recording object
  tasks,              \* invocations of the async functions, in start order
  alerts,             \* Alert.alert calls, in order
  faults,             \* failed operations so far
  presses,            \* button presses so far
  now,                \* wall-clock time, seconds
  stamp,              \* the latest reading of new Date().getTime()
  soundObject,        \* React state: the Sound being played, or NoHandle
  playingSegmentId,   \* React state: id of the playing segment, or NoId
  sounds,             \* device: Sound objects created so far (sound |-> the
                      \* id of the segment it plays)
  loadedSounds,       \* device: Sound objects that are loaded
  plays,              \* invocations of playSegment
  pendingUnloads,     \* device: un-awaited unloadAsync() calls in flight
  pendingStops,       \* device: un-awaited stopAndUnloadAsync() calls in flight
  mounted,            \* the component is mounted
  toggles,            \* presses on segments so far
  stopped,            \* device: handles stopAndUnloadAsync() was called on
  stoppedAgain        \* device: handles it was called on more than once

vars == <<recording, isRecording, recordingSegments, recordingTime,
          segmentProgress, intervalRef, timerRef, segmentCountRef,
          isRecordingRef, recordingRef, openHandles, nextHandle, tasks,
          alerts, faults, presses, now, stamp, soundObject,
          playingSegmentId, sounds, loadedSounds, plays, pendingUnloads,
          pendingStops, mounted, toggles, stopped, stoppedAgain>>

\* The whole program state as one record, so that the synchronous stretches
\* of the functions compose in program order.
State ==
  [recording |-> recording, isRecording |-> isRecording,
   recordingSegments |-> recordingSegments, recordingTime |-> recordingTime,
   segmentProgress |-> segmentProgress, intervalRef |-> intervalRef,
   timerRef |-> timerRef, segmentCountRef |-> segmentCountRef,
   isRecordingRef |-> isRecordingRef, recordingRef |-> recordingRef,
   openHandles |-> openHandles, nextHandle |-> nextHandle, tasks |-> tasks,
   alerts |-> alerts, faults |-> faults, presses |-> presses, now |-> now,
   stamp |-> stamp, soundObject |-> soundObject,
   playingSegmentId |-> playingSegmentId, sounds |-> sounds,
   loadedSounds |-> loadedSounds, plays |-> plays,
   pendingUnloads |-> pendingUnloads, pendingStops |-> pendingStops,
   mounted |-> mounted, toggles |-> toggles, stopped |-> stopped,
   stoppedAgain |-> stoppedAgain]

Commit(s) ==
  /\ recording' = s.recording
  /\ isRecording' = s.isRecording
  /\ recordingSegments' = s.recordingSegments
  /\ recordingTime' = s.recordingTime
  /\ segmentProgress' = s.segmentProgress
  /\ intervalRef' = s.intervalRef
  /\ timerRef' = s.timerRef
  /\ segmentCountRef' = s.segmentCountRef
  /\ isRecordingRef' = s.isRecordingRef
  /\ recordingRef' = s.recordingRef
  /\ openHandles' = s.openHandles
  /\ nextHandle' = s.nextHandle
  /\ tasks' = s.tasks
  /\ alerts' = s.alerts
  /\ faults' = s.faults
  /\ presses' = s.presses
  /\ now' = s.now
  /\ stamp' = s.stamp
  /\ soundObject' = s.soundObject
  /\ playingSegmentId' = s.playingSegmentId
  /\ sounds' = s.sounds
  /\ loadedSounds' = s.loadedSounds
  /\ plays' = s.plays
  /\ pendingUnloads' = s.pendingUnloads
  /\ pendingStops' = s.pendingStops
  /\ mounted' = s.mounted
  /\ toggles' = s.toggles
  /\ stopped' = s.stopped
  /\ stoppedAgain' = s.stoppedAgain

\* A task: one invocation of startRecording ("start"), stopRecording
\* ("stop") or handleSegmentSplit ("split").
\*   pc     the await the task is suspended at, or "done"
\*   cRec, cSegs   `recording` and `recordingSegments` of its closure
\*   cur    saveCurrentSegment's local currentRecording
\*   fin    stopRecording's local finalSegments
\*   fseq, ts   counter value used in fileName, and timestamp
\*   saved  the caller's local savedSegment (zero or one segment)
\*   via    what invoked it: "button", "timer" or "catch"
\*   by     the task whose closure it runs in (itself for a button press)
\*   perm   result of the permission request of a start task
\*   threw  the task's startNewSegment ran its catch block
\*   due1, due5, t0   a start task's two timers (0: not running) and the
\*          time at which it created them
NewTask(kind, pc, cRec, cSegs, via, by) ==
  [kind |-> kind, pc |-> pc, cRec |-> cRec, cSegs |-> cSegs, cur |-> NoHandle,
   fin |-> <<>>, fseq |-> 0, ts |-> 0, via |-> via, by |-> by,
   saved |-> <<>>, perm |-> "none", threw |-> FALSE, due1 |-> 0, due5 |-> 0,
   t0 |-> 0]

TaskIds == 1..Len(tasks)

\* An awaited operation either resolves or rejects; at most MaxFaults
\* operations fail in one behaviour.
Outcomes == IF faults < MaxFaults THEN {"ok", "throw"} ELSE {"ok"}

Fault(s, o) == IF o = "ok" THEN s ELSE [s EXCEPT !.faults = @ + 1]

Alert(s, kind, n) == [s EXCEPT !.alerts = Append(@, [kind |-> kind, n |-> n])]

\* null in playingSegmentId.
NoId == <<>>

\* The component as mounted, before any segment was pressed (lines 12-13).
NothingPlayed ==
  /\ soundObject = NoHandle
  /\ playingSegmentId = NoId
  /\ sounds = <<>>
  /\ loadedSounds = {}
  /\ plays = <<>>
  /\ pendingUnloads = {}
  /\ pendingStops = {}
  /\ mounted = TRUE

\* A task moves to its next await; the locals of a finished stop or split
\* task are dead and are dropped.
SetPc(s, id, pc) ==
  IF pc = "done" /\ s.tasks[id].kind # "start"
  THEN [s EXCEPT !.tasks[id].pc = pc, !.tasks[id].cRec = NoHandle,
                 !.tasks[id].cSegs = <<>>, !.tasks[id].cur = NoHandle,
                 !.tasks[id].fin = <<>>, !.tasks[id].fseq = 0,
                 !.tasks[id].ts = 0]
  ELSE [s EXCEPT !.tasks[id].pc = pc]

Init ==
  /\ recording = NoHandle
  /\ isRecording = FALSE
  /\ recordingSegments = <<>>
  /\ recordingTime = 0
  /\ segmentProgress = 0
  /\ intervalRef = NoHandle
  /\ timerRef = NoHandle
  /\ segmentCountRef = 0
  /\ isRecordingRef = FALSE
  /\ recordingRef = NoHandle
  /\ openHandles = {}
  /\ nextHandle = 1
  /\ tasks = <<>>
  /\ alerts = <<>>
  /\ faults = 0
  /\ presses = 0
  /\ now = 0
  /\ stamp = 0
  /\ NothingPlayed
  /\ toggles = 0
  /\ stopped = {}
  /\ stoppedAgain = {}

\* ---- synchronous stretches of the functions -----------------------------

NoSegment == <<>>

\* clearInterval of a timer id held in a ref (lines 77-78, 23-24).
clearInterval1(s, ref) ==
  IF ref = NoHandle THEN s ELSE [s EXCEPT !.tasks[ref].due1 = 0]

clearInterval5(s, ref) ==
  IF ref = NoHandle THEN s ELSE [s EXCEPT !.tasks[ref].due5 = 0]

afterSaveMutDropWhenStopped(s, id, saved) ==
  LET t == s.tasks[id] IN
  IF t.kind = "stop"
  THEN [s EXCEPT !.recordingSegments = t.fin \o saved,
                 !.recording = NoHandle,
                 !.tasks[id].saved = saved,
                 !.tasks[id].fin = t.fin \o saved,
                 !.tasks[id].pc = "stop_mode"]
  ELSE [s EXCEPT !.recordingSegments =
                   IF s.isRecordingRef THEN @ \o saved ELSE @,
                 !.tasks[id].saved = saved,
                 !.segmentProgress = 0,
                 !.tasks[id].pc = "delay"]

afterSaveMutPrepend(s, id, saved) ==
  LET t == s.tasks[id] IN
  IF t.kind = "stop"
  THEN [s EXCEPT !.recordingSegments = t.fin \o saved,
                 !.recording = NoHandle,
                 !.tasks[id].saved = saved,
                 !.tasks[id].fin = t.fin \o saved,
                 !.tasks[id].pc = "stop_mode"]
  ELSE [s EXCEPT !.recordingSegments = saved \o @,
                 !.tasks[id].saved = saved,
                 !.segmentProgress = 0,
                 !.tasks[id].pc = "delay"]

\* The caller's code after `await saveCurrentSegment()` returned `saved`
\* (a sequence of zero or one segment), up to the caller's next await:
\* stopRecording lines 91-102, handleSegmentSplit lines 198-205.
afterSave(s, id, saved) ==
  LET t == s.tasks[id] IN
  IF t.kind = "stop"
  THEN [s EXCEPT !.recordingSegments = t.fin \o saved,
                 !.recording = NoHandle,
                 !.tasks[id].saved = saved,
                 !.tasks[id].fin = t.fin \o saved,
                 !.tasks[id].pc = "stop_mode"]
  ELSE [s EXCEPT !.recordingSegments = @ \o saved,
                 !.tasks[id].saved = saved,
                 !.segmentProgress = 0,
                 !.tasks[id].pc = "delay"]

\* rec.stopAndUnloadAsync() is called (lines 151, 27).
callStopAndUnload(s, rec) ==
  IF rec \in s.stopped THEN [s EXCEPT !.stoppedAgain = @ \cup {rec}]
  ELSE [s EXCEPT !.stopped = @ \cup {rec}]

\* saveCurrentSegment up to `await currentRecording.stopAndUnloadAsync()`
\* (lines 141-151); the guard of line 141 returns null at once.
saveCurrentSegment(s, id) ==
  LET t == s.tasks[id]
      currentRecording == IF s.recordingRef # NoHandle THEN s.recordingRef
                          ELSE t.cRec
  IN  IF t.cRec = NoHandle /\ s.recordingRef = NoHandle
      THEN afterSave(s, id, NoSegment)
      ELSE callStopAndUnload(
             [s EXCEPT !.recording = NoHandle,
                       !.recordingRef = NoHandle,
                       !.tasks[id].cur = currentRecording,
                       !.tasks[id].pc = "save_stop"], currentRecording)

\* stopRecording up to its first await, invoked in the closure (cRec, cSegs):
\* lines 73-90 when `recording` is set, lines 73-102 otherwise.
stopRecording(s, cRec, cSegs, via, by) ==
  LET id == Len(s.tasks) + 1
      s1 == [s EXCEPT !.isRecording = FALSE, !.isRecordingRef = FALSE]
      s2 == clearInterval1(clearInterval5(s1, s1.intervalRef), s1.timerRef)
      s3 == [s2 EXCEPT !.intervalRef = NoHandle,
                       !.timerRef = NoHandle,
                       !.recordingTime = 0,
                       !.segmentProgress = 0,
                       !.tasks = Append(@, [NewTask("stop", "stop_mode", cRec,
                                                    cSegs, via,
                                                    IF by = 0 THEN id ELSE by)
                                            EXCEPT !.fin = cSegs])]
  IN  IF cRec # NoHandle THEN saveCurrentSegment(s3, id) ELSE s3

\* The caller's code after `await startNewSegment()` returned:
\* startRecording lines 52-61 (both timers are created), handleSegmentSplit
\* line 211.
afterStartNewSegment(s, id) ==
  IF s.tasks[id].kind = "start"
  THEN [s EXCEPT !.timerRef = id,
                 !.intervalRef = id,
                 !.tasks[id].due1 = s.now + TickSeconds,
                 !.tasks[id].due5 = s.now + SegmentSeconds,
                 !.tasks[id].t0 = s.now,
                 !.tasks[id].pc = "done"]
  ELSE SetPc(s, id, "done")

\* startNewSegment up to its first await (lines 113-120).
startNewSegment(s, id) ==
  IF s.tasks[id].cRec # NoHandle \/ s.recordingRef # NoHandle
  THEN afterStartNewSegment(s, id)
  ELSE SetPc(s, id, "sns_mode")

\* The catch block of startNewSegment (lines 132-136): one notification, an
\* un-awaited stopRecording() in the caller's closure, then the return to
\* the caller.
catchStartNewSegment(s, id) ==
  LET t == s.tasks[id]
      s1 == Alert([s EXCEPT !.tasks[id].threw = TRUE], "segment_failure", 0)
      s2 == stopRecording(s1, t.cRec, t.cSegs, "catch", t.by)
  IN  afterStartNewSegment(s2, id)

\* The catch block of startRecording (lines 63-68).
catchStartRecording(s, id) ==
  SetPc([Alert(s, "start_failure", 0)
           EXCEPT !.isRecording = FALSE, !.isRecordingRef = FALSE],
        id, "done")

\* ---- actions -------------------------------------------------------------

\* handleRecordButtonPress (lines 214-220) in the current render.
PressStart ==
  /\ mounted
  /\ presses < MaxPresses
  /\ ~isRecording
  /\ LET id == Len(tasks) + 1
         s1 == [State EXCEPT !.presses = @ + 1,
                  !.tasks = Append(@, NewTask("start", "perm", recording,
                                              recordingSegments, "button", id))]
     IN  Commit(s1)

PressStop ==
  /\ mounted
  /\ presses < MaxPresses
  /\ isRecording
  /\ Commit(stopRecording([State EXCEPT !.presses = @ + 1], recording,
                          recordingSegments, "button", 0))

PermissionOkMutDeniedPasses(status) == status \in {"granted", "denied"}

\* The permission test of line 36.
PermissionOk(status) == status = "granted"

\* Audio.requestPermissionsAsync settles (lines 35-42).
PermissionSettles(id) ==
  /\ tasks[id].kind = "start" /\ tasks[id].pc = "perm"
  /\ \E status \in {"granted"} \cup
                   (IF faults < MaxFaults THEN {"denied", "throw"} ELSE {}) :
       LET s1 == Fault(State, IF status = "granted" THEN "ok" ELSE status)
           s2 == [s1 EXCEPT !.tasks[id].perm = status]
       IN  IF status = "throw" THEN Commit(catchStartRecording(s2, id))
           ELSE IF PermissionOk(status) THEN Commit(SetPc(s2, id, "mode"))
           ELSE Commit(SetPc(Alert(s2, "permission_denied", 0), id, "done"))

\* Audio.setAudioModeAsync of startRecording settles (lines 42-49).
ModeSettles(id) ==
  /\ tasks[id].kind = "start" /\ tasks[id].pc = "mode"
  /\ \E o \in Outcomes :
       LET s1 == Fault(State, o) IN
       IF o = "throw" THEN Commit(catchStartRecording(s1, id))
       ELSE Commit(startNewSegment([s1 EXCEPT !.isRecording = TRUE,
                                               !.isRecordingRef = TRUE], id))

\* Audio.setAudioModeAsync of startNewSegment settles (lines 120-126).
SegmentModeSettles(id) ==
  /\ tasks[id].pc = "sns_mode"
  /\ \E o \in Outcomes :
       LET s1 == Fault(State, o) IN
       IF o = "throw" THEN Commit(catchStartNewSegment(s1, id))
       ELSE Commit(SetPc(s1, id, "sns_create"))

\* Audio.Recording.createAsync settles (lines 126-131): on success the device
\* has a new open Recording object.
CreateSettles(id) ==
  /\ tasks[id].pc = "sns_create"
  /\ \E o \in Outcomes :
       LET s1 == Fault(State, o)
           newRecording == s1.nextHandle
       IN
       IF o = "throw" THEN Commit(catchStartNewSegment(s1, id))
       ELSE Commit(afterStartNewSegment(
                     [s1 EXCEPT !.openHandles = @ \cup {newRecording},
                                !.nextHandle = @ + 1,
                                !.recording = newRecording,
                                !.recordingRef = newRecording], id))

\* currentRecording.stopAndUnloadAsync settles (lines 151-154): on success
\* the device has released the object.
StopAndUnloadSettles(id) ==
  /\ tasks[id].pc = "save_stop"
  /\ \E o \in Outcomes :
       LET s1 == Fault(State, o) IN
       IF o = "throw" THEN Commit(afterSave(s1, id, NoSegment))
       ELSE Commit(SetPc([s1 EXCEPT !.openHandles = @ \ {tasks[id].cur}],
                         id, "save_mode"))

\* The values new Date().getTime() can return (line 165): the clock never
\* runs backwards, and successive readings within one second may be equal.
ClockReadings(s) ==
  {v \in (s.now * ClockSteps)..(s.now * ClockSteps + ClockSteps - 1) :
     v >= s.stamp}

\* Audio.setAudioModeAsync of saveCurrentSegment settles (lines 154-169);
\* getURI returns a URI or null.
SaveModeSettles(id) ==
  /\ tasks[id].pc = "save_mode"
  /\ \E o \in Outcomes \cup (IF faults < MaxFaults THEN {"null"} ELSE {}) :
       LET s1 == Fault(State, o) IN
       IF o # "ok" THEN Commit(afterSave(s1, id, NoSegment))
       ELSE \E timestamp \in ClockReadings(s1) :
              Commit([s1 EXCEPT !.stamp = timestamp,
                                !.tasks[id].ts = timestamp,
                                !.tasks[id].fseq = s1.segmentCountRef,
                                !.tasks[id].pc = "save_move"])

\* The segment object of lines 172-177: the id carries the counter as it is
\* after the move, the file name the counter as it was before.
NewSegment(seq, fseq, ts) == [seq |-> seq, fseq |-> fseq, ts |-> ts]

\* FileSystem.moveAsync settles (lines 169-180).
MoveSettles(id) ==
  /\ tasks[id].pc = "save_move"
  /\ \E o \in Outcomes :
       LET s1 == Fault(State, o)
           newSegment == NewSegment(s1.segmentCountRef, tasks[id].fseq,
                                    tasks[id].ts)
       IN
       IF o = "throw" THEN Commit(afterSave(s1, id, NoSegment))
       ELSE Commit(afterSave([s1 EXCEPT !.segmentCountRef = @ + 1], id,
                             <<newSegment>>))

\* Audio.setAudioModeAsync of stopRecording settles (lines 102-107); a
\* rejection ends the un-awaited stopRecording.
StopModeSettles(id) ==
  /\ tasks[id].kind = "stop" /\ tasks[id].pc = "stop_mode"
  /\ \E o \in Outcomes :
       LET s1 == Fault(State, o) IN
       IF o = "throw" THEN Commit(SetPc(s1, id, "done"))
       ELSE Commit(SetPc([Alert(s1, "stop_summary", Len(tasks[id].fin))
                            EXCEPT !.segmentCountRef = 0], id, "done"))

\* The 100 ms settling delay of handleSegmentSplit ends (lines 205-210).
DelaySettles(id) ==
  /\ tasks[id].kind = "split" /\ tasks[id].pc = "delay"
  /\ IF isRecordingRef THEN Commit(startNewSegment(State, id))
     ELSE Commit(SetPc(State, id, "done"))

NextProgressMutNoWrap(prev) == prev + 1

\* One step of the progress display (line 54).
NextProgress(prev) == (prev + 1) % SegmentSeconds

\* The 1-second timer of start task id fires (lines 52-55).
SecondTick(id) ==
  /\ tasks[id].due1 # 0 /\ tasks[id].due1 <= now
  /\ Commit([State EXCEPT !.recordingTime = @ + 1,
                          !.segmentProgress = NextProgress(@),
                          !.tasks[id].due1 = @ + TickSeconds])

\* The 5-second timer of start task id fires (lines 58-61) and runs
\* handleSegmentSplit in the closure of that start up to its first await
\* (lines 190-197).  Of two timers due at the same time the one created
\* first, the 1-second timer, fires first.
RotationTick(id) ==
  /\ tasks[id].due5 # 0 /\ tasks[id].due5 <= now
  /\ ~(tasks[id].due1 # 0 /\ tasks[id].due1 <= tasks[id].due5)
  /\ LET s1 == [State EXCEPT !.tasks[id].due5 = @ + SegmentSeconds]
         t == tasks[id]
         sp == Len(tasks) + 1
     IN  IF ~isRecordingRef \/ (t.cRec = NoHandle /\ recordingRef = NoHandle)
         THEN Commit(s1)
         ELSE Commit(saveCurrentSegment(
                [s1 EXCEPT !.tasks = Append(@, NewTask("split", "save_stop",
                                      t.cRec, t.cSegs, "timer", id))], sp))

\* One second passes, up to the time limit; no timer is overdue, the 100 ms
\* timeout of line 205 included.  Time is observed only through the timers
\* and the timestamps, so it is advanced only while an interval timer runs.
AdvanceTo(limit) ==
  /\ now < limit
  /\ \A id \in TaskIds : tasks[id].pc # "delay"
  /\ \E id \in TaskIds : tasks[id].due1 # 0 \/ tasks[id].due5 # 0
  /\ \A id \in TaskIds : /\ tasks[id].due1 # 0 => tasks[id].due1 > now
                         /\ tasks[id].due5 # 0 => tasks[id].due5 > now
  /\ Commit([State EXCEPT !.now = @ + 1])

Advance == AdvanceTo(MaxTime)

Next ==
  \/ PressStart
  \/ PressStop
  \/ Advance
  \/ \E id \in TaskIds : PermissionSettles(id)
  \/ \E id \in TaskIds : ModeSettles(id)
  \/ \E id \in TaskIds : SegmentModeSettles(id)
  \/ \E id \in TaskIds : CreateSettles(id)
  \/ \E id \in TaskIds : StopAndUnloadSettles(id)
  \/ \E id \in TaskIds : SaveModeSettles(id)
  \/ \E id \in TaskIds : MoveSettles(id)
  \/ \E id \in TaskIds : StopModeSettles(id)
  \/ \E id \in TaskIds : DelaySettles(id)
  \/ \E id \in TaskIds : SecondTick(id)
  \/ \E id \in TaskIds : RotationTick(id)

Spec == Init /\ [][Next]_vars

\* An undisturbed session: one press of the button (a start), and every
\* awaited operation succeeds.
InitSolo ==
  /\ recording = NoHandle
  /\ isRecording = FALSE
  /\ recordingSegments = <<>>
  /\ recordingTime = 0
  /\ segmentProgress = 0
  /\ intervalRef = NoHandle
  /\ timerRef = NoHandle
  /\ segmentCountRef = 0
  /\ isRecordingRef = FALSE
  /\ recordingRef = NoHandle
  /\ openHandles = {}
  /\ nextHandle = 1
  /\ tasks = <<>>
  /\ alerts = <<>>
  /\ faults = MaxFaults
  /\ presses = MaxPresses - 1
  /\ now = 0
  /\ stamp = 0
  /\ NothingPlayed
  /\ toggles = 0
  /\ stopped = {}
  /\ stoppedAgain = {}

AdvanceSolo == AdvanceTo(MaxSoloTime)

NextSolo ==
  \/ PressStart
  \/ AdvanceSolo
  \/ \E id \in TaskIds : PermissionSettles(id)
  \/ \E id \in TaskIds : ModeSettles(id)
  \/ \E id \in TaskIds : SegmentModeSettles(id)
  \/ \E id \in TaskIds : CreateSettles(id)
  \/ \E id \in TaskIds : StopAndUnloadSettles(id)
  \/ \E id \in TaskIds : SaveModeSettles(id)
  \/ \E id \in TaskIds : MoveSettles(id)
  \/ \E id \in TaskIds : DelaySettles(id)
  \/ \E id \in TaskIds : SecondTick(id)
  \/ \E id \in TaskIds : RotationTick(id)

SpecSolo == InitSolo /\ [][NextSolo]_vars

\* Runs in which every awaited operation succeeds and every finalize that
\* has been started gets its device stop, mode reset and file move settled:
\* a pending promise of the device or the file system is eventually settled
\* and its continuation is run by the event loop.
InitCalm ==
  /\ recording = NoHandle
  /\ isRecording = FALSE
  /\ recordingSegments = <<>>
  /\ recordingTime = 0
  /\ segmentProgress = 0
  /\ intervalRef = NoHandle
  /\ timerRef = NoHandle
  /\ segmentCountRef = 0
  /\ isRecordingRef = FALSE
  /\ recordingRef = NoHandle
  /\ openHandles = {}
  /\ nextHandle = 1
  /\ tasks = <<>>
  /\ alerts = <<>>
  /\ faults = MaxFaults
  /\ presses = 0
  /\ now = 0
  /\ stamp = 0
  /\ NothingPlayed
  /\ toggles = 0
  /\ stopped = {}
  /\ stoppedAgain = {}

\* Back-to-back sessions: the button is pressed up to MaxSessionPresses
\* times within one second (no timer fires) and every awaited operation
\* succeeds.
InitSessions ==
  /\ recording = NoHandle
  /\ isRecording = FALSE
  /\ recordingSegments = <<>>
  /\ recordingTime = 0
  /\ segmentProgress = 0
  /\ intervalRef = NoHandle
  /\ timerRef = NoHandle
  /\ segmentCountRef = 0
  /\ isRecordingRef = FALSE
  /\ recordingRef = NoHandle
  /\ openHandles = {}
  /\ nextHandle = 1
  /\ tasks = <<>>
  /\ alerts = <<>>
  /\ faults = MaxFaults
  /\ presses = MaxPresses - MaxSessionPresses
  /\ now = 0
  /\ stamp = 0
  /\ NothingPlayed
  /\ toggles = 0
  /\ stopped = {}
  /\ stoppedAgain = {}

NextSessions ==
  \/ PressStart
  \/ PressStop
  \/ \E id \in TaskIds : PermissionSettles(id)
  \/ \E id \in TaskIds : ModeSettles(id)
  \/ \E id \in TaskIds : SegmentModeSettles(id)
  \/ \E id \in TaskIds : CreateSettles(id)
  \/ \E id \in TaskIds : StopAndUnloadSettles(id)
  \/ \E id \in TaskIds : SaveModeSettles(id)
  \/ \E id \in TaskIds : MoveSettles(id)
  \/ \E id \in TaskIds : StopModeSettles(id)

SpecSessions == InitSessions /\ [][NextSessions]_vars

SpecLive ==
  /\ InitCalm
  /\ [][Next]_vars
  /\ WF_vars(\E id \in TaskIds : StopAndUnloadSettles(id))
  /\ WF_vars(\E id \in TaskIds : SaveModeSettles(id))
  /\ WF_vars(\E id \in TaskIds : MoveSettles(id))

\* ---- properties ----------------------------------------------------------

StartIds == {id \in TaskIds : tasks[id].kind = "start"}
StopIds == {id \in TaskIds : tasks[id].kind = "stop"}
SplitIds == {id \in TaskIds : tasks[id].kind = "split"}
ButtonIds == {id \in TaskIds : tasks[id].via = "button"}

\* No async function is suspended at an await.
Quiescent == \A id \in TaskIds : tasks[id].pc = "done"

\* A finalize (saveCurrentSegment) is in flight.
Finalizing == \E id \in TaskIds :
                tasks[id].pc \in {"save_stop", "save_mode", "save_move"}

AlertIdx(kind) == {i \in 1..Len(alerts) : alerts[i].kind = kind}

\* The most recent press of the button invoked stopRecording.
LastPressIsStop ==
  /\ ButtonIds # {}
  /\ \E id \in ButtonIds : /\ tasks[id].kind = "stop"
                           /\ \A other \in ButtonIds : other <= id

\* C1: at every instant at most one recording handle is open on the device.
AtMostOneOpenHandle == Cardinality(openHandles) <= 1

\* C2: whenever isRecording is false and no finalize is in flight, no
\* recording handle is open on the device.
NoOpenHandleWhenIdle == (~isRecording /\ ~Finalizing) => openHandles = {}

\* C3: once a start() whose first segment open threw has finished,
\* isRecording is false and neither of its timers runs.
FailedStartStartsNoClock ==
  \A id \in StartIds :
    (tasks[id].threw /\ tasks[id].pc = "done")
      => (~isRecording /\ tasks[id].due1 = 0 /\ tasks[id].due5 = 0)

\* C4: when the device open throws on the only start() of a run, then once
\* everything has settled the user has received exactly one notification,
\* the start-failure one, and the segment list is empty.
FailedStartNotifiesOnce ==
  (presses = 1 /\ Quiescent /\ \E id \in StartIds : tasks[id].threw)
    => (alerts = <<[kind |-> "start_failure", n |-> 0]>>
        /\ recordingSegments = <<>>)

\* C7: in a run with one start() and one stop-summary notification, once
\* everything has settled the count in the notification is the number of
\* segments in the list.
SummaryCountsSavedSegments ==
  (Quiescent /\ Cardinality(StartIds) = 1
     /\ Cardinality(AlertIdx("stop_summary")) = 1)
    => \A i \in AlertIdx("stop_summary") :
         alerts[i].n = Len(recordingSegments)

\* C8: once the stop() of the latest button press has returned and every
\* asynchronous step has finished, elapsedSeconds, progressInSegment and the
\* sequence counter are all 0.
SessionResetAfterStop ==
  (LastPressIsStop /\ Quiescent)
    => (recordingTime = 0 /\ segmentProgress = 0 /\ segmentCountRef = 0)

\* C9: a run with a single start() (one session) never produces two
\* stop-summary notifications, whichever path invokes stop().
OneSummaryPerSession ==
  Cardinality(StartIds) = 1 => Cardinality(AlertIdx("stop_summary")) <= 1

\* A start task's permission request resolves to a status other than granted.
PermissionDeniedStep(id) ==
  /\ tasks[id].kind = "start" /\ tasks[id].pc = "perm"
  /\ tasks'[id].perm = "denied"

\* C5: a start() whose permission request resolves to denied ends there with
\* exactly one permission-denied notification and leaves isRecording, the
\* recording handle, the device, the timers, the clock values, the counter
\* and the segment list as they were; and a start() reaches the device open
\* only with a granted permission result.
DeniedStartChangesNothing ==
  [][\A id \in TaskIds :
       /\ PermissionDeniedStep(id) =>
            /\ tasks'[id].pc = "done"
            /\ tasks'[id].due1 = 0 /\ tasks'[id].due5 = 0
            /\ Len(tasks') = Len(tasks)
            /\ \A other \in TaskIds : other # id => tasks'[other] = tasks[other]
            /\ alerts' = Append(alerts, [kind |-> "permission_denied", n |-> 0])
            /\ UNCHANGED <<isRecording, isRecordingRef, recording, recordingRef,
                           recordingSegments, openHandles, nextHandle, timerRef,
                           intervalRef, recordingTime, segmentProgress,
                           segmentCountRef>>
       /\ (tasks[id].kind = "start"
             /\ tasks'[id].pc \in {"sns_mode", "sns_create"})
            => tasks'[id].perm = "granted"
       /\ (tasks[id].kind = "start" /\ tasks'[id].due1 # 0)
            => tasks'[id].perm = "granted"]_vars

\* A start() has ended on a denied permission and the user was notified.
DeniedStartReached ==
  \E id \in StartIds :
    /\ tasks[id].perm = "denied" /\ tasks[id].pc = "done"
    /\ AlertIdx("permission_denied") # {}

\* The sequence numbers of the segment list are 0, 1, 2, ... in list order.
SequenceNumbersInOrder ==
  \A i \in 1..Len(recordingSegments) : recordingSegments[i].seq = i - 1

\* The session of start task id has run for recordingTime seconds, a multiple
\* of 5, its rotation tick of that second has fired, and every asynchronous
\* step has finished.
AtBoundary(id) ==
  /\ tasks[id].due5 # 0
  /\ recordingTime % SegmentSeconds = 0
  /\ tasks[id].due5 = tasks[id].t0 + recordingTime + SegmentSeconds
  /\ Quiescent

\* C6 as stated: after D seconds of an undisturbed recording, D a multiple
\* of 5, exactly D/5 segments have been produced, numbered 0..D/5-1 in
\* order.
RotationCountExact ==
  \A id \in StartIds :
    AtBoundary(id) =>
      /\ Len(recordingSegments) = recordingTime \div SegmentSeconds
      /\ SequenceNumbersInOrder

\* C6 as amended: the same, provided no rotation tick was skipped, that is,
\* every rotation tick found a handle open because the finalize and reopen
\* of the previous tick had completed (one handleSegmentSplit ran to its
\* finalize per boundary).
RotationCountWhenNoTickSkipped ==
  \A id \in StartIds :
    (AtBoundary(id)
       /\ Cardinality(SplitIds) = recordingTime \div SegmentSeconds) =>
      /\ Len(recordingSegments) = recordingTime \div SegmentSeconds
      /\ SequenceNumbersInOrder

\* Ten seconds of recording, two rotations, two segments.
TwoRotationsReached ==
  /\ \E id \in StartIds : AtBoundary(id)
  /\ recordingTime = 2 * SegmentSeconds
  /\ Cardinality(SplitIds) = 2
  /\ Len(recordingSegments) = 2

\* handleSegmentSplit passes line 202 (its finalize has returned).
RotationResetStep ==
  \E id \in SplitIds :
    /\ tasks[id].pc \in {"save_stop", "save_mode", "save_move"}
    /\ tasks'[id].pc = "delay"

\* stopRecording is invoked (its synchronous part runs).
StopInvokedStep ==
  \E id \in 1..Len(tasks') : id > Len(tasks) /\ tasks'[id].kind = "stop"

\* C10: progressInSegment is in {0,1,2,3,4} in every state, and it is 0 in
\* the state right after a rotation has finalized its segment and in the
\* state right after stop() is invoked.
ProgressCycle ==
  [][/\ segmentProgress \in 0..4
     /\ segmentProgress' \in 0..4
     /\ RotationResetStep => segmentProgress' = 0
     /\ StopInvokedStep => segmentProgress' = 0]_vars

\* A rotation has just finalized its segment after five seconds of ticks.
RotationResetReached ==
  /\ \E id \in SplitIds : tasks[id].pc = "delay"
  /\ recordingTime >= SegmentSeconds
  /\ segmentProgress = 0


\* Both timers of every start task are inactive.
NoTimerRuns ==
  \A id \in StartIds : tasks[id].due1 = 0 /\ tasks[id].due5 = 0

\* C15: whenever isRecording is false both timers are inactive: no timer
\* created by a start() survives the stop() that ends its session.
TimersStoppedWhenIdle == ~isRecording => NoTimerRuns

\* C17: start() then stop() before any second has passed, every operation
\* succeeding: once everything has settled exactly one segment, numbered 0,
\* has been saved and elapsedSeconds and progressInSegment are 0.
ImmediateStopSavesOneSegment ==
  (/\ now = 0 /\ faults = 0 /\ Quiescent
   /\ Len(tasks) = 2
   /\ tasks[1].kind = "start" /\ tasks[2].kind = "stop"
   /\ tasks[2].via = "button")
    => /\ Len(recordingSegments) = 1
       /\ recordingSegments[1].seq = 0
       /\ recordingTime = 0
       /\ segmentProgress = 0


\* No more tasks than this are ever started: one per press, one rotation per
\* press within the time limit, one stop per failed open.
TaskIdBound == 2 * MaxPresses + MaxFaults + 2

\* Task id is a rotation whose finalize is in flight after stop() has been
\* invoked.
FinalizeInFlightAtStop(id) ==
  /\ id \in SplitIds
  /\ tasks[id].pc \in {"save_stop", "save_mode", "save_move"}
  /\ ~isRecordingRef

\* The segment that the finalize of task id returned is in the segment list.
FinalizeAppended(id) ==
  /\ id \in SplitIds
  /\ tasks[id].saved # NoSegment
  /\ \E i \in 1..Len(recordingSegments) :
       recordingSegments[i] = tasks[id].saved[1]

\* C16: a finalize started by a rotation tick and still in flight when
\* stop() is invoked is not cancelled: when its device stop and file move
\* succeed, its segment is eventually appended to the segment list.
InFlightFinalizeCompletes ==
  \A id \in 1..TaskIdBound :
    FinalizeInFlightAtStop(id) ~> FinalizeAppended(id)

\* stop() has been invoked by the button while a rotation's finalize is in
\* flight.
StopDuringFinalizeReached ==
  /\ \E id \in TaskIds : FinalizeInFlightAtStop(id)
  /\ \E id \in StopIds : tasks[id].via = "button"


\* The id and the file name of a segment (lines 166, 173): both are built
\* from a counter value and the timestamp.
SegmentId(seg) == <<"segment", seg.seq, seg.ts>>
FileName(seg) == <<"recording", seg.fseq, seg.ts>>

\* C19: the segments of the list have pairwise distinct ids and pairwise
\* distinct file names.
SegmentIdsDistinct ==
  \A i, j \in 1..Len(recordingSegments) :
    i # j => /\ SegmentId(recordingSegments[i]) # SegmentId(recordingSegments[j])
             /\ FileName(recordingSegments[i]) # FileName(recordingSegments[j])

\* p is a prefix of q.
IsPrefix(p, q) ==
  /\ Len(p) <= Len(q)
  /\ \A i \in 1..Len(p) : q[i] = p[i]

\* C20: the segment list is append-only: every step leaves the previous list
\* as a prefix of the new one.
SegmentsAppendOnly == [][IsPrefix(recordingSegments, recordingSegments')]_vars


\* ---- playback and teardown ------------------------------------------------

\* One invocation of playSegment(segment) (lines 222-251).
\*   seg      segment.id
\*   cSound, cPlaying   `soundObject` and `playingSegmentId` of its closure
\*   pc       the await it is suspended at ("unload", "create"), or "done"
\*   snd      the Sound it created
\*   failed   it ran its catch block
PlayIds == 1..Len(plays)

NewPlay(seg, cSound, cPlaying, pc) ==
  [seg |-> seg, cSound |-> cSound, cPlaying |-> cPlaying, pc |-> pc,
   snd |-> NoHandle, failed |-> FALSE]

\* An un-awaited sound.unloadAsync() (lines 25, 242): the device unloads the
\* sound some time later; a sound that is not loaded is left alone.
requestUnload(s, sound) ==
  IF sound \in s.loadedSounds THEN [s EXCEPT !.pendingUnloads = @ \cup {sound}]
  ELSE s

\* The un-awaited recordingRef.current.stopAndUnloadAsync() of line 27.
requestStop(s, rec) ==
  LET s1 == callStopAndUnload(s, rec) IN
  IF rec \in s.openHandles THEN [s1 EXCEPT !.pendingStops = @ \cup {rec}]
  ELSE s1

\* The cleanup function of the effect (lines 22-29), run with the
\* `soundObject` of the render that registered it: both timers are cleared
\* through the refs, the sound and the open recording are released; no ref
\* and no state is reset.
effectCleanup(s, cSound) ==
  LET s1 == clearInterval1(clearInterval5(s, s.intervalRef), s.timerRef)
      s2 == IF cSound # NoHandle THEN requestUnload(s1, cSound) ELSE s1
  IN  IF s2.recordingRef # NoHandle THEN requestStop(s2, s2.recordingRef)
      ELSE s2

\* setSoundObject(value): a changed value re-renders the mounted component,
\* and the effect's dependency [soundObject] (line 30) makes React run the
\* previous render's cleanup.  After the unmount nothing renders; the state
\* written then is read by no code.
setSoundObject(s, value) ==
  IF s.soundObject = value THEN s
  ELSE IF s.mounted
       THEN effectCleanup([s EXCEPT !.soundObject = value], s.soundObject)
       ELSE [s EXCEPT !.soundObject = value]

\* The catch block of playSegment (lines 246-249).
catchPlaySegment(s, p) ==
  [Alert(s, "playback_failure", 0) EXCEPT !.plays[p].failed = TRUE,
                                          !.plays[p].pc = "done"]

IsPlayingSegmentMutNever(cPlaying, id) == FALSE

\* The test of line 227.
IsPlayingSegment(cPlaying, id) == cPlaying = id

\* A segment of the list is pressed: playSegment up to its first await
\* (lines 223-225 with a sound, 223-232 without).
Toggle ==
  /\ mounted
  /\ toggles < MaxToggles
  /\ \E i \in 1..Len(recordingSegments) :
       Commit([State EXCEPT
                 !.toggles = @ + 1,
                 !.plays = Append(@, NewPlay(SegmentId(recordingSegments[i]),
                                             soundObject, playingSegmentId,
                                             IF soundObject # NoHandle
                                             THEN "unload" ELSE "create"))])

\* `await soundObject.unloadAsync()` settles (lines 225-232).
PlayUnloadSettles(p) ==
  /\ plays[p].pc = "unload"
  /\ \E o \in Outcomes :
       LET s1 == Fault(State, o)
           t == plays[p]
           s2 == setSoundObject(
                   [s1 EXCEPT !.loadedSounds = @ \ {t.cSound},
                              !.pendingUnloads = @ \ {t.cSound}], NoHandle)
       IN
       IF o = "throw" THEN Commit(catchPlaySegment(s1, p))
       ELSE IF IsPlayingSegment(t.cPlaying, t.seg)
       THEN Commit([s2 EXCEPT !.playingSegmentId = NoId,
                              !.plays[p].pc = "done"])
       ELSE Commit([s2 EXCEPT !.plays[p].pc = "create"])

\* Audio.Sound.createAsync settles (lines 232-245): on success the device
\* has loaded a new Sound, which plays.
PlayCreateSettles(p) ==
  /\ plays[p].pc = "create"
  /\ \E o \in Outcomes :
       LET s1 == Fault(State, o)
           sound == Len(s1.sounds) + 1
           s2 == [s1 EXCEPT !.sounds = Append(@, plays[p].seg),
                            !.loadedSounds = @ \cup {sound}]
           s3 == [setSoundObject(s2, sound)
                    EXCEPT !.playingSegmentId = plays[p].seg,
                           !.plays[p].snd = sound,
                           !.plays[p].pc = "done"]
       IN
       IF o = "throw" THEN Commit(catchPlaySegment(s1, p)) ELSE Commit(s3)

\* A loaded sound plays to its end: the status callback of lines 238-244.
PlaybackFinishes(sound) ==
  /\ sound \in loadedSounds \ pendingUnloads
  /\ \E p \in PlayIds : plays[p].snd = sound
  /\ Commit(requestUnload(
              setSoundObject([State EXCEPT !.playingSegmentId = NoId],
                             NoHandle), sound))

\* The device completes an un-awaited unloadAsync().
UnloadCompletes(sound) ==
  /\ sound \in pendingUnloads
  /\ Commit([State EXCEPT !.loadedSounds = @ \ {sound},
                          !.pendingUnloads = @ \ {sound}])

\* The device completes the un-awaited stopAndUnloadAsync() of line 27.
StopCompletes(rec) ==
  /\ rec \in pendingStops
  /\ Commit([State EXCEPT !.openHandles = @ \ {rec},
                          !.pendingStops = @ \ {rec}])

\* The component is unmounted: React runs the cleanup of the last render.
Unmount ==
  /\ mounted
  /\ Commit(effectCleanup([State EXCEPT !.mounted = FALSE], soundObject))

\* The component with two saved segments in its list, as two back-to-back
\* sessions within the first second leave it.
TwoSessionsDone ==
  /\ recording = NoHandle
  /\ isRecording = FALSE
  /\ recordingSegments = <<NewSegment(0, 0, 0), NewSegment(0, 0, 1)>>
  /\ recordingTime = 0
  /\ segmentProgress = 0
  /\ intervalRef = NoHandle
  /\ timerRef = NoHandle
  /\ segmentCountRef = 0
  /\ isRecordingRef = FALSE
  /\ recordingRef = NoHandle
  /\ openHandles = {}
  /\ nextHandle = 3
  /\ alerts = <<[kind |-> "stop_summary", n |-> 1],
                [kind |-> "stop_summary", n |-> 2]>>
  /\ now = 0
  /\ stamp = 1
  /\ NothingPlayed
  /\ stopped = {1, 2}
  /\ stoppedAgain = {}

\* Recording, playback and teardown together: two presses of the record
\* button and two presses on segments.
InitPlay ==
  /\ TwoSessionsDone
  /\ tasks = <<>>
  /\ faults = 0
  /\ presses = 0
  /\ toggles = MaxToggles - 2

NextPlay ==
  \/ PressStart
  \/ PressStop
  \/ Toggle
  \/ Unmount
  \/ \E id \in TaskIds : PermissionSettles(id)
  \/ \E id \in TaskIds : ModeSettles(id)
  \/ \E id \in TaskIds : SegmentModeSettles(id)
  \/ \E id \in TaskIds : CreateSettles(id)
  \/ \E id \in TaskIds : StopAndUnloadSettles(id)
  \/ \E id \in TaskIds : SaveModeSettles(id)
  \/ \E id \in TaskIds : MoveSettles(id)
  \/ \E id \in TaskIds : StopModeSettles(id)
  \/ \E p \in PlayIds : PlayUnloadSettles(p)
  \/ \E p \in PlayIds : PlayCreateSettles(p)
  \/ \E sound \in 1..Len(sounds) : PlaybackFinishes(sound)
  \/ \E sound \in 1..Len(sounds) : UnloadCompletes(sound)
  \/ \E rec \in 1..nextHandle : StopCompletes(rec)

SpecPlay == InitPlay /\ [][NextPlay]_vars

\* The playback controller of the mounted component alone: up to MaxToggles
\* presses on segments, the record button is not pressed.
InitToggle ==
  /\ TwoSessionsDone
  /\ tasks = <<>>
  /\ faults = 0
  /\ presses = MaxPresses
  /\ toggles = 0

NextToggle ==
  \/ Toggle
  \/ \E p \in PlayIds : PlayUnloadSettles(p)
  \/ \E p \in PlayIds : PlayCreateSettles(p)
  \/ \E sound \in 1..Len(sounds) : PlaybackFinishes(sound)
  \/ \E sound \in 1..Len(sounds) : UnloadCompletes(sound)

SpecToggle == InitToggle /\ [][NextToggle]_vars

\* playSegment(segment) p has returned without an error, having found a
\* sound in its closure.
Returned(p) ==
  /\ plays[p].pc = "done" /\ ~plays[p].failed
  /\ plays[p].cSound # NoHandle

ToggledOff(p) == Returned(p) /\ plays[p].cPlaying = plays[p].seg

Switched(p) == Returned(p) /\ plays[p].cPlaying # plays[p].seg

\* C11: a toggle of the segment that is playing ends with that segment's
\* sound unloaded and playingSegmentId cleared; a toggle of another segment
\* ends with the former sound unloaded, a sound of the new segment loaded and
\* held in soundObject, and playingSegmentId equal to the new segment's id.
ToggleOutcome ==
  [][\A p \in PlayIds :
       /\ (plays[p].pc # "done" /\ ToggledOff(p)')
           => /\ plays[p].cSound \notin loadedSounds'
              /\ loadedSounds' \subseteq loadedSounds
              /\ soundObject' = NoHandle
              /\ playingSegmentId' = NoId
       /\ (plays[p].pc # "done" /\ Switched(p)')
           => /\ plays[p].cSound \notin loadedSounds'
              /\ plays'[p].snd \in loadedSounds'
              /\ sounds'[plays'[p].snd] = plays[p].seg
              /\ soundObject' = plays'[p].snd
              /\ playingSegmentId' = plays[p].seg]_vars

\* One press switched from a playing segment to another one, and a later
\* press on the segment then playing stopped it.
ToggledBothWays ==
  \E p, q \in PlayIds :
    /\ p < q
    /\ Switched(p)
    /\ ToggledOff(q)
    /\ plays[q].cSound = plays[p].snd


\* C12: at most one playback sound is loaded on the device at any instant.
AtMostOneSoundLoaded == Cardinality(loadedSounds) <= 1

\* Audio.Sound.createAsync of playSegment p rejects in this step.
LoadFailsStep(p) == plays[p].pc = "create" /\ plays'[p].failed

\* C13: when loading a segment for playback fails, one playback-failure
\* notification is emitted, playingSegmentId is cleared and no sound is
\* loaded.
LoadFailureClearsPlayback ==
  [][\A p \in PlayIds :
       LoadFailsStep(p)
         => /\ alerts' = Append(alerts, [kind |-> "playback_failure", n |-> 0])
            /\ playingSegmentId' = NoId
            /\ loadedSounds' = {}]_vars

\* A step of the playback controller: a press on a segment, a step of
\* playSegment, or the status callback of a sound that played to its end.
PlaybackStep ==
  \/ Toggle
  \/ \E p \in PlayIds : PlayUnloadSettles(p)
  \/ \E p \in PlayIds : PlayCreateSettles(p)
  \/ \E sound \in 1..Len(sounds) : PlaybackFinishes(sound)

\* C14: a playback toggle and the natural completion of a playback leave the
\* recorder untouched: isRecording, the recording handle (open, with no stop
\* requested), both timers, recordingTime, segmentProgress, the sequence
\* counter and the segment list.
PlaybackLeavesRecorderAlone ==
  [][PlaybackStep
       => UNCHANGED <<isRecording, isRecordingRef, recording, recordingRef,
                      openHandles, pendingStops, intervalRef, timerRef, tasks,
                      recordingTime, segmentProgress, segmentCountRef,
                      recordingSegments>>]_vars

\* No invocation of playSegment is suspended at an await.
PlaysDone == \A p \in PlayIds : plays[p].pc = "done"

\* C18: after the teardown, once every operation in flight has settled, no
\* timer runs, no playback sound is loaded and no recording handle is open.
TeardownReleasesEverything ==
  (/\ ~mounted /\ Quiescent /\ PlaysDone
   /\ pendingUnloads = {} /\ pendingStops = {})
    => /\ NoTimerRuns
       /\ loadedSounds = {}
       /\ openHandles = {}


\* C23: no recording handle is ever stopped (stopAndUnloadAsync) more than
\* once.
NoHandleStoppedTwice == stoppedAgain = {}


\* A finalize in flight holds handle rec: saveCurrentSegment awaits its
\* stopAndUnloadAsync (line 151), or the cleanup's stop (line 27) is pending.
BeingStopped(rec) ==
  \/ \E id \in TaskIds : tasks[id].pc = "save_stop" /\ tasks[id].cur = rec
  \/ rec \in pendingStops

\* C24: every recording handle that is open on the device is held in
\* recordingRef or is being stopped by a finalize or by the cleanup; none is
\* unreachable.
OpenHandlesReachable ==
  \A rec \in openHandles : rec = recordingRef \/ BeingStopped(rec)


\* No interval timer is due: every callback up to the present has run.
NoTimerDue ==
  \A id \in StartIds : /\ tasks[id].due1 # 0 => tasks[id].due1 > now
                       /\ tasks[id].due5 # 0 => tasks[id].due5 > now

\* The session's timers run (lines 52-61).
TimersRun ==
  /\ timerRef # NoHandle /\ intervalRef # NoHandle
  /\ tasks[timerRef].due1 # 0 /\ tasks[intervalRef].due5 # 0

\* C22: while recording, segmentProgress equals recordingTime modulo the
\* segment length, and the displayed time to the next save,
\* SegmentSeconds - segmentProgress, is the time left until the next rotation
\* tick.
ProgressMatchesClock ==
  (isRecording /\ TimersRun /\ NoTimerDue)
    => /\ segmentProgress = recordingTime % SegmentSeconds
       /\ SegmentSeconds - segmentProgress = tasks[intervalRef].due5 - now


\* C25: whenever no toggle is in flight and no unload is pending,
\* playingSegmentId is non-null exactly when a sound is loaded, and the
\* loaded sound is the one in soundObject, created for that segment.
PlayingMatchesLoadedSound ==
  (mounted /\ PlaysDone /\ pendingUnloads = {})
    => /\ (playingSegmentId # NoId) <=> (loadedSounds # {})
       /\ playingSegmentId # NoId
            => /\ loadedSounds = {soundObject}
               /\ sounds[soundObject] = playingSegmentId


\* The component after a start whose stop was pressed before
\* Recording.createAsync had resolved: the stop found no handle and showed
\* its summary, then the start opened handle 1 and created its timers
\* (second 0).
StoppedEarly ==
  /\ recording = 1
  /\ isRecording = FALSE
  /\ recordingSegments = <<>>
  /\ recordingTime = 0
  /\ segmentProgress = 0
  /\ intervalRef = 1
  /\ timerRef = 1
  /\ segmentCountRef = 0
  /\ isRecordingRef = FALSE
  /\ recordingRef = 1
  /\ openHandles = {1}
  /\ nextHandle = 2
  /\ tasks = <<[NewTask("start", "done", NoHandle, <<>>, "button", 1)
                 EXCEPT !.perm = "granted", !.due1 = TickSeconds,
                        !.due5 = SegmentSeconds],
               NewTask("stop", "done", NoHandle, <<>>, "button", 2)>>
  /\ alerts = <<[kind |-> "stop_summary", n |-> 0]>>
  /\ faults = 0
  /\ now = 0
  /\ stamp = 0
  /\ NothingPlayed
  /\ toggles = 0
  /\ stopped = {}
  /\ stoppedAgain = {}

\* A session started in the render that follows such an early stop: up to
\* two further presses of the record button.
InitRestart ==
  /\ StoppedEarly
  /\ presses = MaxPresses - 2

SpecRestart == InitRestart /\ [][Next]_vars

\* The finalize of rotation id fails in this step: stopAndUnloadAsync,
\* setAudioModeAsync or moveAsync throws, or the URI is null, and
\* saveCurrentSegment returns null to handleSegmentSplit.
FinalizeFailsStep(id) ==
  /\ tasks[id].kind = "split"
  /\ tasks[id].pc \in {"save_stop", "save_mode", "save_move"}
  /\ tasks'[id].pc = "delay" /\ tasks'[id].saved = NoSegment

\* Rotation id, whose finalize failed, ends its settling delay in this step
\* while the session is still recording.
AfterFailedFinalizeStep(id) ==
  /\ tasks[id].kind = "split"
  /\ tasks[id].pc = "delay" /\ tasks[id].saved = NoSegment
  /\ tasks'[id].pc # "delay"
  /\ isRecordingRef

\* C21: a finalize failure during a rotation is silent and non-fatal: no
\* segment is appended, the sequence counter is not advanced, no
\* notification is emitted, isRecording is unchanged, and after the delay the
\* rotation goes on to open the next handle unless one is already current.
SilentFinalizeFailure ==
  [][\A id \in TaskIds :
       /\ FinalizeFailsStep(id)
            => UNCHANGED <<recordingSegments, segmentCountRef, alerts,
                           isRecording, isRecordingRef>>
       /\ AfterFailedFinalizeStep(id)
            => tasks'[id].pc = "sns_mode" \/ recordingRef # NoHandle]_vars

====
